---- MODULE Spec2Model ----
(***************************************************************************)
(* Model of src/llm.py: a Streamlit page that derives a content taxonomy   *)
(* from a user profile and a query, renders it into a prompt and into a    *)
(* mock LLM output.                                                        *)
(*                                                                         *)
(* Text.  A Python str that is rendered (prompt, output) is modelled as a  *)
(* sequence of atoms.  An atom is either one whitespace character (NL, SP) *)
(* or a chunk of text whose first and last characters are not whitespace.  *)
(* A template line without interpolation is one chunk; an interpolated     *)
(* value is one chunk.  Concatenating the atoms gives the Python string,   *)
(* so str.strip() is the removal of leading and trailing whitespace atoms. *)
(* The en dash of "0-5" (src/llm.py:113,174-176) is written as "-": the    *)
(* module is ASCII.                                                        *)
(***************************************************************************)
EXTENDS Naturals, Sequences, FiniteSets

VARIABLES
    user_profile,   \* src/llm.py:20-41, the sidebar widgets' values
    user_query,     \* src/llm.py:46-49, the text input's value
    clicked,        \* src/llm.py:195, what st.button returned in this run
    pc,             \* where the script run is: build, generate, respond, idle
    taxonomy,       \* src/llm.py:197
    prompt,         \* src/llm.py:198
    output,         \* src/llm.py:199
    calls,          \* history: the component calls of this script run
    ref             \* history: one earlier completed run, kept for comparison

vars == <<user_profile, user_query, clicked, pc, taxonomy, prompt, output, calls, ref>>

(***************************************************************************)
(* Bounds.                                                                 *)
(***************************************************************************)
\* The most options a session selects in the Skills multiselect.
MaxSelected == 2

\* The longest skills list passed to build_taxonomy directly.
MaxSkills == 3

\* The texts typed into the query box ("" : the box cleared).
Queries == {"Kafka training", "Python basics", ""}

\* A content type outside the selectbox's options.
UnknownContentTypes == {"Quiz"}

(***************************************************************************)
(* The widgets' options and defaults.                                      *)
(***************************************************************************)
Roles == {"Backend Engineer", "Data Engineer", "Student"}

SkillOptions == {"Kafka", "Java", "Spring Boot", "Python", "SQL"}

ExperienceLevels == {"Beginner", "Intermediate", "Advanced"}

ContentTypes == {"Training", "Assessment", "Explanation"}

DefaultProfile ==
    [name |-> "John",
     role |-> "Backend Engineer",
     skills |-> <<"Kafka">>,
     experience |-> "Intermediate",
     content_type_selection |-> "Training"]

DefaultQuery == "Kafka training"

\* A name of the script that is not bound (yet) in this run.
Undefined == [undefined |-> TRUE]

(***************************************************************************)
(* Text.                                                                   *)
(***************************************************************************)
NL == "\n"

SP == " "

Whitespace == {" ", "\t", "\n", "\r", "\f"}

IsSpace(a) == a \in Whitespace

RECURSIVE lstrip(_)
lstrip(s) ==
    IF s = <<>> THEN <<>>
    ELSE IF IsSpace(Head(s)) THEN lstrip(Tail(s))
    ELSE s

RECURSIVE rstrip(_)
rstrip(s) ==
    IF s = <<>> THEN <<>>
    ELSE IF IsSpace(s[Len(s)]) THEN rstrip(SubSeq(s, 1, Len(s) - 1))
    ELSE s

\* Mutant of strip: only the leading whitespace is removed.
strip_leading_only(s) == lstrip(s)

strip(s) == rstrip(lstrip(s))

(***************************************************************************)
(* TAXONOMY ENGINE                                                         *)
(***************************************************************************)
\* dict.get(key, default)
Get(d, key, default) == IF key \in DOMAIN d THEN d[key] ELSE default

LearningGoals ==
    [Training |-> "Hands-on learning",
     Assessment |-> "Evaluate understanding",
     Explanation |-> "Conceptual clarity"]

\* Mutant of learning_goal: the fallback follows the prompt's default branch.
learning_goal_default_explanation(content_type) ==
    Get(LearningGoals, content_type, "Conceptual clarity")

learning_goal(content_type) ==
    Get(LearningGoals, content_type, "Hands-on learning")

\* Mutant of skill_focus: the last selected skill, not the first.
skill_focus_last(profile) ==
    IF profile.skills # <<>> THEN profile.skills[Len(profile.skills)] ELSE "General"

skill_focus(profile) ==
    IF profile.skills # <<>> THEN profile.skills[1] ELSE "General"

\* taxonomy = {...}
Taxonomy(skill, content_type, difficulty, user_role, goal, query) ==
    [skill |-> skill,
     content_type |-> content_type,
     difficulty |-> difficulty,
     user_role |-> user_role,
     learning_goal |-> goal,
     output_format |-> "Structured",
     context_depth |-> "High",
     model_dependency |-> "None (Model-Agnostic)",
     query |-> query]

\* Mutant of build_taxonomy: a content type outside the three options is
\* replaced by "Training".
build_taxonomy_validating(query, profile) ==
    LET selected == Get(profile, "content_type_selection", "Training")
        content_type == IF selected \in ContentTypes THEN selected ELSE "Training"
    IN  Taxonomy(skill_focus(profile), content_type, profile.experience,
                 profile.role, learning_goal(content_type), query)

\* Mutant of build_taxonomy: the query accumulates over the session's runs
\* (state kept between runs).
build_taxonomy_with_history(query, profile) ==
    LET content_type == Get(profile, "content_type_selection", "Training")
    IN  Taxonomy(skill_focus(profile), content_type, profile.experience,
                 profile.role, learning_goal(content_type),
                 IF ref = Undefined THEN query ELSE ref.query \o query)

build_taxonomy(query, profile) ==
    LET content_type == Get(profile, "content_type_selection", "Training")
        goal == learning_goal(content_type)
        difficulty == profile.experience
    IN  Taxonomy(skill_focus(profile), content_type, difficulty,
                 profile.role, goal, query)

(***************************************************************************)
(* PROMPT GENERATOR                                                        *)
(***************************************************************************)
TrainingPrompt(tax) ==
    <<NL>> \o
    <<"You are an expert technical instructor.", NL>> \o
    <<NL>> \o
    <<"Create a", SP, tax.difficulty, SP, "level TRAINING module for:", NL>> \o
    <<"Skill:", SP, tax.skill, NL>> \o
    <<"User Role:", SP, tax.user_role, NL>> \o
    <<NL>> \o
    <<"Requirements:", NL>> \o
    <<"- Clear learning objectives", NL>> \o
    <<"- Concept explanation with real-world examples", NL>> \o
    <<"- Hands-on exercises", NL>> \o
    <<"- Common mistakes to avoid", NL>> \o
    <<"- Quick self-check questions", NL>> \o
    <<NL>> \o
    <<"Avoid generic explanations.", NL>> \o
    <<"Focus on applied understanding.", NL>>

AssessmentPrompt(tax) ==
    <<NL>> \o
    <<"You are a senior technical evaluator.", NL>> \o
    <<NL>> \o
    <<"Create a", SP, tax.difficulty, SP, "level ASSESSMENT for:", NL>> \o
    <<"Skill:", SP, tax.skill, NL>> \o
    <<NL>> \o
    <<"Requirements:", NL>> \o
    <<"- 2 conceptual questions", NL>> \o
    <<"- 1 scenario-based question", NL>> \o
    <<"- Expected answer points", NL>> \o
    <<"- Evaluation rubric (0-5 scale)", NL>> \o
    <<NL>> \o
    <<"Ensure questions test real understanding, not memorization.", NL>>

\* Mutant of ExplanationPrompt: the level is interpolated as in the other two.
ExplanationPromptWithLevel(tax) ==
    <<NL>> \o
    <<"You are a senior technical mentor.", NL>> \o
    <<NL>> \o
    <<"Explain the following topic clearly at", SP, tax.difficulty, SP, "level:", NL>> \o
    <<"Skill:", SP, tax.skill, NL>> \o
    <<NL>> \o
    <<"Requirements:", NL>> \o
    <<"- Simple explanation", NL>> \o
    <<"- Architecture overview", NL>> \o
    <<"- Real-world use cases", NL>> \o
    <<"- Career relevance", NL>> \o
    <<NL>> \o
    <<"Keep it structured and concise.", NL>>

ExplanationPrompt(tax) ==
    <<NL>> \o
    <<"You are a senior technical mentor.", NL>> \o
    <<NL>> \o
    <<"Explain the following topic clearly:", NL>> \o
    <<"Skill:", SP, tax.skill, NL>> \o
    <<NL>> \o
    <<"Requirements:", NL>> \o
    <<"- Simple explanation", NL>> \o
    <<"- Architecture overview", NL>> \o
    <<"- Real-world use cases", NL>> \o
    <<"- Career relevance", NL>> \o
    <<NL>> \o
    <<"Keep it structured and concise.", NL>>

PromptTemplate(tax) ==
    IF tax.content_type = "Training" THEN TrainingPrompt(tax)
    ELSE IF tax.content_type = "Assessment" THEN AssessmentPrompt(tax)
    ELSE ExplanationPrompt(tax)

\* Mutant of generate_prompt: the user's query is put into the prompt.
generate_prompt_with_query(tax) ==
    strip(PromptTemplate(tax)) \o <<NL, "User Query:", SP, tax.query>>

generate_prompt(tax) == strip(PromptTemplate(tax))

(***************************************************************************)
(* MOCK LLM OUTPUT                                                         *)
(***************************************************************************)
TrainingResponse(skill) ==
    <<NL>> \o
    <<"### Learning Objectives", NL>> \o
    <<"- Understand", SP, skill, SP, "core concepts", NL>> \o
    <<"- Learn practical workflows", NL>> \o
    <<"- Handle common issues", NL>> \o
    <<NL>> \o
    <<"### Core Concepts", NL>> \o
    <<skill, SP, "is a widely-used platform/technology for real-world applications.", NL>> \o
    <<NL>> \o
    <<"### Hands-on Exercise", NL>> \o
    <<"- Beginner: Simple exercises to understand basics", NL>> \o
    <<"- Intermediate: Create projects and mini pipelines", NL>> \o
    <<"- Advanced: Optimize performance, design scalable solutions", NL>> \o
    <<NL>> \o
    <<"### Common Pitfalls", NL>> \o
    <<"- Incorrect configurations", NL>> \o
    <<"- Ignoring best practices", NL>> \o
    <<NL>> \o
    <<"### Self-Check", NL>> \o
    <<"1. Explain the core idea of", SP, skill, ".", NL>> \o
    <<"2. Apply", SP, skill, SP, "to a sample scenario.", NL>>

AssessmentResponse(skill) ==
    <<NL>> \o
    <<"### Assessment", NL>> \o
    <<NL>> \o
    <<"1. What is the main purpose of", SP, skill, "?", NL>> \o
    <<"2. Explain a common use case.", NL>> \o
    <<NL>> \o
    <<"### Scenario", NL>> \o
    <<"Design a solution using", SP, skill, SP, "for a practical problem.", NL>> \o
    <<NL>> \o
    <<"### Evaluation Rubric", NL>> \o
    <<"- Concept clarity (0-5)", NL>> \o
    <<"- Design correctness (0-5)", NL>> \o
    <<"- Scalability thinking (0-5)", NL>>

ExplanationResponse(skill) ==
    <<NL>> \o
    <<"###", SP, skill, SP, "Explained", NL>> \o
    <<NL>> \o
    <<skill, SP, "enables efficient and reliable execution of tasks in practical scenarios.", NL>> \o
    <<NL>> \o
    <<"### Architecture", NL>> \o
    <<"- Key components", NL>> \o
    <<"- How they interact", NL>> \o
    <<"- Example workflows", NL>> \o
    <<NL>> \o
    <<"### Real-World Usage", NL>> \o
    <<"- Industry applications", NL>> \o
    <<"- Best practices", NL>>

TierBullets ==
    [Beginner |-> "- Beginner: Simple exercises to understand basics",
     Intermediate |-> "- Intermediate: Create projects and mini pipelines",
     Advanced |-> "- Advanced: Optimize performance, design scalable solutions"]

\* Mutant of mock_llm_response: a content type that is neither Training nor
\* Assessment nor Explanation gets the Training text.
mock_llm_response_default_training(tax) ==
    IF tax.content_type = "Assessment" THEN AssessmentResponse(tax.skill)
    ELSE IF tax.content_type = "Explanation" THEN ExplanationResponse(tax.skill)
    ELSE TrainingResponse(tax.skill)

\* Mutant of mock_llm_response: the Training text shows only the exercise of
\* the taxonomy's own level.
mock_llm_response_own_tier(tax) ==
    LET OtherTier(a) == \E d \in DOMAIN TierBullets :
                            d # tax.difficulty /\ a = TierBullets[d]
        Keep(a) == ~OtherTier(a)
    IN  IF tax.content_type = "Training"
        THEN SelectSeq(TrainingResponse(tax.skill), Keep)
        ELSE IF tax.content_type = "Assessment" THEN AssessmentResponse(tax.skill)
        ELSE ExplanationResponse(tax.skill)

mock_llm_response(tax) ==
    LET skill == tax.skill
        difficulty == tax.difficulty
    IN  IF tax.content_type = "Training" THEN TrainingResponse(skill)
        ELSE IF tax.content_type = "Assessment" THEN AssessmentResponse(skill)
        ELSE ExplanationResponse(skill)

(***************************************************************************)
(* The page: every interaction reruns the script top to bottom with fresh  *)
(* globals; st.button returns True only in the run its click started.      *)
(***************************************************************************)
Range(s) == {s[i] : i \in 1..Len(s)}

Remove(s, i) == SubSeq(s, 1, i - 1) \o SubSeq(s, i + 1, Len(s))

\* Mutant of RunsPipeline: the pipeline runs in every rerun of the script.
RunsPipelineAlways(button) == TRUE

\* if st.button(...): the pipeline is entered only when the button returned True.
RunsPipeline(button) == button

Rerun(profile, query, button) ==
    /\ pc = "idle"
    /\ user_profile' = profile
    /\ user_query' = query
    /\ clicked' = button
    /\ pc' = IF RunsPipeline(button) THEN "build" ELSE "idle"
    /\ taxonomy' = Undefined
    /\ prompt' = Undefined
    /\ output' = Undefined
    /\ calls' = <<>>
    /\ UNCHANGED ref

SelectRole ==
    \E r \in Roles \ {user_profile.role} :
        Rerun([user_profile EXCEPT !.role = r], user_query, FALSE)

SelectSkill ==
    \E s \in SkillOptions \ Range(user_profile.skills) :
        /\ Len(user_profile.skills) < MaxSelected
        /\ Rerun([user_profile EXCEPT !.skills = Append(@, s)], user_query, FALSE)

DeselectSkill ==
    \E i \in 1..Len(user_profile.skills) :
        Rerun([user_profile EXCEPT !.skills = Remove(@, i)], user_query, FALSE)

SelectExperience ==
    \E e \in ExperienceLevels \ {user_profile.experience} :
        Rerun([user_profile EXCEPT !.experience = e], user_query, FALSE)

SelectContentType ==
    \E c \in ContentTypes \ {user_profile.content_type_selection} :
        Rerun([user_profile EXCEPT !.content_type_selection = c], user_query, FALSE)

EditQuery ==
    \E q \in Queries \ {user_query} :
        Rerun(user_profile, q, FALSE)

ClickGenerate == Rerun(user_profile, user_query, TRUE)

(***************************************************************************)
(* RUN PIPELINE                                                            *)
(***************************************************************************)
Call(fn, arg, ret) == [fn |-> fn, arg |-> arg, ret |-> ret]

Build ==
    /\ pc = "build"
    /\ taxonomy' = build_taxonomy(user_query, user_profile)
    /\ calls' = Append(calls, Call("build_taxonomy", <<user_query, user_profile>>, taxonomy'))
    /\ pc' = "generate"
    /\ ref' = IF ref # Undefined /\ <<ref.query, ref.profile>> # <<user_query, user_profile>>
              THEN [ref EXCEPT !.between = TRUE]
              ELSE ref
    /\ UNCHANGED <<user_profile, user_query, clicked, prompt, output>>

Generate ==
    /\ pc = "generate"
    /\ prompt' = generate_prompt(taxonomy)
    /\ calls' = Append(calls, Call("generate_prompt", taxonomy, prompt'))
    /\ pc' = "respond"
    /\ UNCHANGED <<user_profile, user_query, clicked, taxonomy, output, ref>>

Respond ==
    /\ pc = "respond"
    /\ output' = mock_llm_response(taxonomy)
    /\ calls' = Append(calls, Call("mock_llm_response", taxonomy, output'))
    /\ pc' = "idle"
    /\ UNCHANGED <<user_profile, user_query, clicked, taxonomy, prompt, ref>>

\* The runs kept for comparison are those made with the page's initial role
\* and skills; the runs compared with them are any later run of the session.
IsReference(profile) ==
    /\ profile.role = DefaultProfile.role
    /\ profile.skills = DefaultProfile.skills

\* History only: keep the run just displayed, to compare later runs with it;
\* between records that a run on other inputs has been made since (see Build).
Remember ==
    /\ pc = "idle"
    /\ clicked
    /\ ref = Undefined
    /\ IsReference(user_profile)
    /\ ref' = [query |-> user_query, profile |-> user_profile,
               taxonomy |-> taxonomy, prompt |-> prompt, output |-> output,
               between |-> FALSE]
    /\ UNCHANGED <<user_profile, user_query, clicked, pc, taxonomy, prompt, output, calls>>

(***************************************************************************)
(* Spec: a session on the page, from its first load.                       *)
(***************************************************************************)
Init ==
    /\ user_profile = DefaultProfile
    /\ user_query = DefaultQuery
    /\ clicked = FALSE
    /\ pc = "idle"
    /\ taxonomy = Undefined
    /\ prompt = Undefined
    /\ output = Undefined
    /\ calls = <<>>
    /\ ref = Undefined

Next ==
    \/ SelectRole
    \/ SelectSkill
    \/ DeselectSkill
    \/ SelectExperience
    \/ SelectContentType
    \/ EditQuery
    \/ ClickGenerate
    \/ Build
    \/ Generate
    \/ Respond
    \/ Remember

Spec == Init /\ [][Next]_vars

(***************************************************************************)
(* FnSpec: the three functions called in the pipeline's order on arguments *)
(* drawn from their whole domain: any skills list, a content type outside  *)
(* the selectbox's options, a profile without the key.                     *)
(***************************************************************************)
RECURSIVE SkillLists(_)
SkillLists(n) ==
    IF n = 0 THEN {<<>>}
    ELSE LET shorter == SkillLists(n - 1)
         IN  shorter \cup
             UNION {{Append(l, s) : s \in SkillOptions \ Range(l)} :
                    l \in {x \in shorter : Len(x) = n - 1}}

ProfilesWithContentType ==
    [name : {"John"},
     role : Roles,
     skills : SkillLists(MaxSkills),
     experience : ExperienceLevels,
     content_type_selection : ContentTypes \cup UnknownContentTypes]

ProfilesWithoutContentType ==
    [name : {"John"},
     role : Roles,
     skills : SkillLists(MaxSkills),
     experience : ExperienceLevels]

FnProfiles == ProfilesWithContentType \cup ProfilesWithoutContentType

FnInit ==
    /\ user_profile \in FnProfiles
    /\ user_query \in Queries
    /\ clicked = TRUE
    /\ pc = "build"
    /\ taxonomy = Undefined
    /\ prompt = Undefined
    /\ output = Undefined
    /\ calls = <<>>
    /\ ref = Undefined

FnNext == Build \/ Generate \/ Respond

FnSpec == FnInit /\ [][FnNext]_vars


(***************************************************************************)
(* Properties.                                                             *)
(***************************************************************************)
\* The pipeline of this run has completed: all three values are displayed.
Done == pc = "idle" /\ clicked

Built == taxonomy # Undefined

Contains(text, a) == a \in Range(text)

SameHead(a, b) ==
    \/ a = <<>> /\ b = <<>>
    \/ a # <<>> /\ b # <<>> /\ a[1] = b[1]

\* C1: build sets taxonomy.skill to the element at index 0 of profile.skills
\* when there is one and to "General" when skills is empty; a skills list with
\* the same first element (other elements changed, the tail reordered) gives
\* the same skill.
C1_SkillIsFirstSelected ==
    Built =>
        /\ taxonomy.skill = IF Len(user_profile.skills) >= 1
                            THEN user_profile.skills[1]
                            ELSE "General"
        /\ \A other \in SkillLists(MaxSkills) :
               SameHead(other, user_profile.skills) =>
                   build_taxonomy(user_query,
                                  [user_profile EXCEPT !.skills = other]).skill
                       = taxonomy.skill

C1_Witness ==
    /\ Built
    /\ user_profile.skills = <<"Java", "SQL", "Kafka">>
    /\ taxonomy.skill = "Java"

\* C2: taxonomy.learningGoal is "Hands-on learning" for Training, "Evaluate
\* understanding" for Assessment, "Conceptual clarity" for Explanation and
\* "Hands-on learning" for any other content type passed to build, whatever
\* the other inputs are.
C2_LearningGoalByContentType ==
    (Built /\ "content_type_selection" \in DOMAIN user_profile) =>
        LET c == user_profile.content_type_selection
        IN  taxonomy.learning_goal =
                CASE c = "Training" -> "Hands-on learning"
                  [] c = "Assessment" -> "Evaluate understanding"
                  [] c = "Explanation" -> "Conceptual clarity"
                  [] OTHER -> "Hands-on learning"

C2_Witness ==
    /\ Built
    /\ "content_type_selection" \in DOMAIN user_profile
    /\ user_profile.content_type_selection \in UnknownContentTypes
    /\ taxonomy.learning_goal = "Hands-on learning"

\* The template a prompt comes from, told by its role framing line.
PromptBranch ==
    CASE prompt[1] = "You are an expert technical instructor." -> "Training"
      [] prompt[1] = "You are a senior technical evaluator." -> "Assessment"
      [] prompt[1] = "You are a senior technical mentor." -> "Explanation"
      [] OTHER -> "none"

\* The template a mock output comes from, told by its first heading.
OutputBranch ==
    CASE output[2] = "### Learning Objectives" -> "Training"
      [] output[2] = "### Assessment" -> "Assessment"
      [] output[2] = "###" /\ output[6] = "Explained" -> "Explanation"
      [] OTHER -> "none"

\* C3: generate and respond dispatch on taxonomy.contentType identically: both
\* take the Training branch iff it is "Training", both the Assessment branch
\* iff it is "Assessment", both the Explanation branch for every other value.
C3_SameDispatch ==
    Done =>
        /\ PromptBranch = OutputBranch
        /\ PromptBranch = "Training" <=> taxonomy.content_type = "Training"
        /\ PromptBranch = "Assessment" <=> taxonomy.content_type = "Assessment"
        /\ taxonomy.content_type \notin {"Training", "Assessment"} =>
               PromptBranch = "Explanation"

C3_Witness ==
    /\ Done
    /\ taxonomy.content_type \in UnknownContentTypes
    /\ PromptBranch = "Explanation"
    /\ OutputBranch = "Explanation"

\* C4: build does not validate and does not fail on a content type outside
\* {Training, Assessment, Explanation}: the taxonomy's contentType is the
\* input value unchanged, learningGoal falls back to "Hands-on learning", and
\* difficulty, userRole and query are copies of the profile's experience level,
\* its role and the input query.
C4_PassThrough ==
    pc # "build" =>
        /\ Built
        /\ "content_type_selection" \in DOMAIN user_profile =>
               taxonomy.content_type = user_profile.content_type_selection
        /\ taxonomy.content_type \notin ContentTypes =>
               taxonomy.learning_goal = "Hands-on learning"
        /\ taxonomy.difficulty = user_profile.experience
        /\ taxonomy.user_role = user_profile.role
        /\ taxonomy.query = user_query

C4_Witness ==
    /\ Built
    /\ taxonomy.content_type \in UnknownContentTypes
    /\ taxonomy.content_type = user_profile.content_type_selection
    /\ taxonomy.learning_goal = "Hands-on learning"

\* C5: respond's output does not depend on taxonomy.difficulty: a taxonomy
\* that differs only in difficulty gives the same text, and the Training text
\* holds the Beginner, the Intermediate and the Advanced bullet whatever the
\* difficulty is.
C5_OutputIgnoresDifficulty ==
    Done =>
        /\ \A d \in ExperienceLevels :
               mock_llm_response([taxonomy EXCEPT !.difficulty = d]) = output
        /\ taxonomy.content_type = "Training" =>
               \A d \in ExperienceLevels : Contains(output, TierBullets[d])

C5_Witness ==
    /\ Done
    /\ taxonomy.content_type = "Training"
    /\ taxonomy.difficulty = "Beginner"
    /\ Contains(output, TierBullets["Advanced"])

\* C6: the prompt contains the skill in every branch and the difficulty in the
\* Training and Assessment branches; a prompt of the Explanation/default branch
\* does not contain the taxonomy's difficulty.
C6_PromptInterpolation ==
    Done =>
        /\ Contains(prompt, taxonomy.skill)
        /\ PromptBranch \in {"Training", "Assessment"} =>
               Contains(prompt, taxonomy.difficulty)
        /\ PromptBranch = "Explanation" =>
               ~Contains(prompt, taxonomy.difficulty)

C6_Witness ==
    /\ Done
    /\ PromptBranch = "Explanation"
    /\ Contains(prompt, taxonomy.skill)
    /\ ~Contains(prompt, taxonomy.difficulty)

\* C9: the text generate returns has no leading and no trailing whitespace
\* (its first and last characters are not whitespace) and is otherwise the
\* template's text, line for line.
C9_PromptStripped ==
    prompt # Undefined =>
        /\ prompt # <<>>
        /\ ~IsSpace(prompt[1])
        /\ ~IsSpace(prompt[Len(prompt)])
        /\ PromptTemplate(taxonomy) = <<NL>> \o prompt \o <<NL>>

C9_Witness ==
    /\ prompt # Undefined
    /\ IsSpace(Head(PromptTemplate(taxonomy)))
    /\ ~IsSpace(prompt[1])
    /\ Len(prompt) = Len(PromptTemplate(taxonomy)) - 2

\* The run displayed now and the remembered run had the same inputs.
SameInputsAsRef ==
    /\ ref # Undefined
    /\ Done
    /\ ref.query = user_query
    /\ ref.profile = user_profile

\* C7: two generate actions with identical (profile, query) yield identical
\* taxonomy, prompt and output, whatever was done before or between them.
C7_SameInputsSameResults ==
    SameInputsAsRef =>
        /\ ref.taxonomy = taxonomy
        /\ ref.prompt = prompt
        /\ ref.output = output

C7_Witness ==
    /\ SameInputsAsRef
    /\ ref.between
    /\ ref.output = output

EntryPoints == <<"build_taxonomy", "generate_prompt", "mock_llm_response">>

\* The number of component calls made when the run is at pc.
CallsAt(p) ==
    CASE p = "build" -> 0
      [] p = "generate" -> 1
      [] p = "respond" -> 2
      [] p = "idle" -> 3

\* C8: the pipeline runs only in the run the generate button started, never
\* in a run a widget change started; in it build, generate and respond are
\* called once each, in this order, and generate and respond are both given
\* the taxonomy that build returned.
C8_PipelineOnClickOnly ==
    /\ ~clicked =>
           /\ pc = "idle"
           /\ calls = <<>>
           /\ taxonomy = Undefined /\ prompt = Undefined /\ output = Undefined
    /\ clicked =>
           /\ Len(calls) = CallsAt(pc)
           /\ \A i \in 1..Len(calls) : calls[i].fn = EntryPoints[i]
           /\ \A i \in 1..Len(calls) :
                  calls[i].arg = IF i = 1 THEN <<user_query, user_profile>>
                                 ELSE calls[1].ret

C8_Witness ==
    /\ Done
    /\ Len(calls) = 3
    /\ calls[3].arg = calls[1].ret
    /\ user_profile # DefaultProfile

\* C10: two generate actions with equal profiles and different queries give
\* taxonomies that agree on every field except query, the same prompt and the
\* same output.
C10_QueryOnlyInTaxonomy ==
    (ref # Undefined /\ Done /\ ref.profile = user_profile /\ ref.query # user_query) =>
        /\ [ref.taxonomy EXCEPT !.query = taxonomy.query] = taxonomy
        /\ taxonomy.query = user_query
        /\ ref.taxonomy.query = ref.query
        /\ ref.prompt = prompt
        /\ ref.output = output

C10_Witness ==
    /\ ref # Undefined
    /\ Done
    /\ ref.profile = user_profile
    /\ ref.query # user_query
    /\ ref.prompt = prompt

====
